---------------------------- MODULE Spec2Model ----------------------------
(***************************************************************************)
(* Model of the command-line utilities of whisperpine/python-scripts:      *)
(*   scripts/keep_a_changelog.py  (git log -> CHANGELOG.md)                *)
(*   scripts/csv_to_markdown.py   (CSV file -> Markdown table file)        *)
(* A Python str is a sequence of one-character strings, so that split,     *)
(* strip, replace, the regular expressions and strptime are computed       *)
(* character by character, as the interpreter computes them.               *)
(***************************************************************************)
EXTENDS Integers, Sequences, FiniteSets, TLC

(***************************************************************************)
(* Python str primitives                                                   *)
(***************************************************************************)
Digits == {"0","1","2","3","4","5","6","7","8","9"}

Letters ==
  {"a","b","c","d","e","f","g","h","i","j","k","l","m",
   "n","o","p","q","r","s","t","u","v","w","x","y","z",
   "A","B","C","D","E","F","G","H","I","J","K","L","M",
   "N","O","P","Q","R","S","T","U","V","W","X","Y","Z"}

\* the characters str.strip() and the regex class \s remove (ASCII)
Whitespace == {" ", "\t", "\n", "\r", "\f"}

DigitVal(c) ==
  CASE c = "0" -> 0 [] c = "1" -> 1 [] c = "2" -> 2 [] c = "3" -> 3
    [] c = "4" -> 4 [] c = "5" -> 5 [] c = "6" -> 6 [] c = "7" -> 7
    [] c = "8" -> 8 [] c = "9" -> 9

DigitChar(n) ==
  CASE n = 0 -> "0" [] n = 1 -> "1" [] n = 2 -> "2" [] n = 3 -> "3"
    [] n = 4 -> "4" [] n = 5 -> "5" [] n = 6 -> "6" [] n = 7 -> "7"
    [] n = 8 -> "8" [] n = 9 -> "9"

SetMin(S) == CHOOSE x \in S : \A y \in S : x <= y

SetMax(S) == CHOOSE x \in S : \A y \in S : x >= y

AllIn(s, S) == \A i \in 1..Len(s) : s[i] \in S

\* s.startswith(p)
StartsWith(s, p) == Len(s) >= Len(p) /\ SubSeq(s, 1, Len(p)) = p

\* s.strip()
Strip(s) ==
  LET I == {i \in 1..Len(s) : s[i] \notin Whitespace}
  IN  IF I = {} THEN <<>> ELSE SubSeq(s, SetMin(I), SetMax(I))

\* s.split(c) for a one-character separator c: always count(c) + 1 fields
Split(s, c) ==
  LET P      == {i \in 1..Len(s) : s[i] = c}
      n      == Cardinality(P)
      Pos(k) == IF k = 0 THEN 0
                ELSE IF k = n + 1 THEN Len(s) + 1
                ELSE CHOOSE i \in P : Cardinality({j \in P : j < i}) = k - 1
  IN  [k \in 1..(n + 1) |-> SubSeq(s, Pos(k - 1) + 1, Pos(k) - 1)]

\* sep.join(parts)
RECURSIVE Join(_, _)
Join(parts, sep) ==
  IF parts = <<>> THEN <<>>
  ELSE IF Len(parts) = 1 THEN parts[1]
  ELSE parts[1] \o sep \o Join(Tail(parts), sep)

\* s.replace(old, ""): every non-overlapping occurrence, left to right
RECURSIVE Remove(_, _)
Remove(s, old) ==
  IF Len(s) < Len(old) THEN s
  ELSE IF SubSeq(s, 1, Len(old)) = old
       THEN Remove(SubSeq(s, Len(old) + 1, Len(s)), old)
       ELSE <<s[1]>> \o Remove(Tail(s), old)

UpperCase ==
  <<"A","B","C","D","E","F","G","H","I","J","K","L","M",
    "N","O","P","Q","R","S","T","U","V","W","X","Y","Z">>

LowerCase ==
  <<"a","b","c","d","e","f","g","h","i","j","k","l","m",
    "n","o","p","q","r","s","t","u","v","w","x","y","z">>

\* s.lower()
Lower(s) ==
  [i \in 1..Len(s) |->
     IF \E k \in 1..26 : UpperCase[k] = s[i]
     THEN LowerCase[CHOOSE k \in 1..26 : UpperCase[k] = s[i]]
     ELSE s[i]]

\* "%0<w>d" % n
RECURSIVE ZeroPad(_, _)
ZeroPad(n, w) ==
  IF w <= 1 /\ n < 10 THEN <<DigitChar(n)>>
  ELSE ZeroPad(n \div 10, w - 1) \o <<DigitChar(n % 10)>>

(***************************************************************************)
(* keep_a_changelog.py: is_semver_tag                                      *)
(***************************************************************************)
IdentChars == Digits \cup Letters \cup {"-"}

\* 0|[1-9]\d*
NumericId(s) ==
  /\ s # <<>>
  /\ AllIn(s, Digits)
  /\ (s[1] = "0" => Len(s) = 1)

\* 0|[1-9]\d*|\d*[a-zA-Z-][0-9a-zA-Z-]*
PreReleaseId(s) ==
  /\ s # <<>>
  /\ AllIn(s, IdentChars)
  /\ (AllIn(s, Digits) => NumericId(s))

\* [0-9a-zA-Z-]+
BuildId(s) == s # <<>> /\ AllIn(s, IdentChars)

\* a dot-separated list of pre-release identifiers
PreReleaseList(s) ==
  LET f == Split(s, ".") IN \A k \in 1..Len(f) : PreReleaseId(f[k])

\* a dot-separated list of build identifiers
BuildList(s) ==
  LET f == Split(s, ".") IN \A k \in 1..Len(f) : BuildId(f[k])

\* The pattern between ^ and $: v?, the core, (?:-pre)?, (?:\+build)?
SemverFullMatch(tag) ==
  LET s    == IF tag # <<>> /\ tag[1] = "v" THEN Tail(tag) ELSE tag
      C    == {i \in 1..Len(s) : s[i] \in {"-", "+"}}
      cEnd == IF C = {} THEN Len(s) ELSE SetMin(C) - 1
      core == Split(SubSeq(s, 1, cEnd), ".")
      rest == SubSeq(s, cEnd + 1, Len(s))
      B    == {i \in 1..Len(rest) : rest[i] = "+"}
      pEnd == IF B = {} THEN Len(rest) ELSE SetMin(B) - 1
      pre  == SubSeq(rest, 2, pEnd)
      bld  == SubSeq(rest, pEnd + 2, Len(rest))
  IN  /\ Len(core) = 3
      /\ \A k \in 1..3 : NumericId(core[k])
      /\ (rest # <<>> /\ rest[1] = "-") => PreReleaseList(pre)
      /\ B # {} => BuildList(bld)

\* is_semver_tag with the pattern's final $ lost: a prefix of the tag matches
is_semver_prefix(tag) ==
  \E n \in 1..Len(tag) : SemverFullMatch(SubSeq(tag, 1, n))

\* bool(SEMVER_PATTERN.match(tag)); $ also matches before one final newline
is_semver_tag(tag) ==
  \/ SemverFullMatch(tag)
  \/ /\ tag # <<>>
     /\ tag[Len(tag)] = "\n"
     /\ SemverFullMatch(SubSeq(tag, 1, Len(tag) - 1))

(***************************************************************************)
(* datetime.strptime(date_str, "%Y-%m-%d %H:%M:%S %z") and                 *)
(* str(commit_date.date()), keep_a_changelog.py lines 119 and 141          *)
(***************************************************************************)
IsLeap(y) == (y % 4 = 0 /\ y % 100 # 0) \/ y % 400 = 0

DaysInMonth(y, m) ==
  IF m = 2 THEN (IF IsLeap(y) THEN 29 ELSE 28)
  ELSE IF m \in {4, 6, 9, 11} THEN 30 ELSE 31

NoDate == [ok |-> FALSE]

\* The string is read from left to right, one directive at a time; each
\* operator below reads one directive at position p and hands the rest on.
At(s, i) == IF i >= 1 /\ i <= Len(s) THEN s[i] ELSE "$"

D(s, i) == At(s, i) \in Digits

V(s, i) == IF D(s, i) THEN DigitVal(s[i]) ELSE 0

V2(s, i) == 10 * V(s, i) + V(s, i + 1)

W(s, i) == At(s, i) \in Whitespace

\* how many characters \s+ takes at position i
Run(s, i) ==
  IF \E j \in i..Len(s) : ~W(s, j)
  THEN SetMin({j \in i..Len(s) : ~W(s, j)}) - i
  ELSE Len(s) + 1 - i

\* the value of a directive that took len characters at p
Val(s, p, len) == IF len = 2 THEN V2(s, p) ELSE V(s, p)

\* The checks made once the pattern matched: no unconverted data remains,
\* ":" is used consistently in the offset, and the fields make a datetime
\* (year 1..9999, a day of the month, second 0..59, offset within 24 hours).
MakeDatetime(s, zEnd, y, mo, d, h, mi, se, colons, offHour, offset) ==
  IF /\ zEnd = Len(s)
     /\ colons
     /\ y >= 1 /\ d <= DaysInMonth(y, mo)
     /\ se <= 59
     /\ offHour <= 23
  THEN [ok |-> TRUE, year |-> y, month |-> mo, day |-> d,
        hour |-> h, minute |-> mi, second |-> se, utcoffset |-> offset]
  ELSE NoDate

\* %z after hours and minutes: (:?[0-5]\d(\.\d{1,6})?)?, op the minutes' place
ZoneSeconds(s, zp, op, c1, y, mo, d, h, mi, se) ==
  LET c2      == IF At(s, op + 2) = ":" THEN 1 ELSE 0
      qp      == op + 2 + c2
      secOk   == D(s, qp) /\ V(s, qp) <= 5 /\ D(s, qp + 1)
      fracLen == IF secOk /\ At(s, qp + 2) = "." /\ D(s, qp + 3)
                 THEN SetMax({k \in 1..6 : \A j \in 1..k : D(s, qp + 2 + j)})
                 ELSE 0
      zEnd    == IF ~secOk THEN op + 1
                 ELSE IF fracLen = 0 THEN qp + 1 ELSE qp + 2 + fracLen
      secs    == 3600 * V2(s, zp + 1) + 60 * V2(s, op)
                   + (IF secOk THEN V2(s, qp) ELSE 0)
  IN  MakeDatetime(s, zEnd, y, mo, d, h, mi, se, ~secOk \/ c1 = c2,
                   V2(s, zp + 1), IF At(s, zp) = "-" THEN -secs ELSE secs)

\* %z: ([+-]\d\d:?[0-5]\d(:?[0-5]\d(\.\d{1,6})?)?|Z)
Zone(s, zp, y, mo, d, h, mi, se) ==
  LET c1 == IF At(s, zp + 3) = ":" THEN 1 ELSE 0
      op == zp + 3 + c1
  IN  IF At(s, zp) = "Z"
      THEN MakeDatetime(s, zp, y, mo, d, h, mi, se, TRUE, 0, 0)
      ELSE IF /\ At(s, zp) \in {"+", "-"} /\ D(s, zp + 1) /\ D(s, zp + 2)
              /\ D(s, op) /\ V(s, op) <= 5 /\ D(s, op + 1)
           THEN ZoneSeconds(s, zp, op, c1, y, mo, d, h, mi, se)
           ELSE NoDate

\* %S\s+: (6[0-1]|[0-5]\d|\d)
Second(s, p, y, mo, d, h, mi) ==
  LET len == IF D(s, p) /\ D(s, p + 1) /\ V2(s, p) \in 0..61 /\ W(s, p + 2) THEN 2
             ELSE IF D(s, p) /\ W(s, p + 1) THEN 1 ELSE 0
  IN  IF len = 0 THEN NoDate
      ELSE Zone(s, p + len + Run(s, p + len), y, mo, d, h, mi, Val(s, p, len))

\* %M: ([0-5]\d|\d), then ":"
Minute(s, p, y, mo, d, h) ==
  LET len == IF D(s, p) /\ D(s, p + 1) /\ V2(s, p) \in 0..59 /\ At(s, p + 2) = ":" THEN 2
             ELSE IF D(s, p) /\ At(s, p + 1) = ":" THEN 1 ELSE 0
  IN  IF len = 0 THEN NoDate
      ELSE Second(s, p + len + 1, y, mo, d, h, Val(s, p, len))

\* %H: (2[0-3]|[0-1]\d|\d), then ":"
Hour(s, p, y, mo, d) ==
  LET len == IF D(s, p) /\ D(s, p + 1) /\ V2(s, p) \in 0..23 /\ At(s, p + 2) = ":" THEN 2
             ELSE IF D(s, p) /\ At(s, p + 1) = ":" THEN 1 ELSE 0
  IN  IF len = 0 THEN NoDate
      ELSE Minute(s, p + len + 1, y, mo, d, Val(s, p, len))

\* %d\s+: (3[0-1]|[1-2]\d|0[1-9]|[1-9]| [1-9])
Day(s, p, y, mo) ==
  LET len == IF D(s, p) /\ D(s, p + 1) /\ V2(s, p) \in 1..31 /\ W(s, p + 2) THEN 2
             ELSE IF D(s, p) /\ V(s, p) >= 1 /\ W(s, p + 1) THEN 1
             ELSE IF At(s, p) = " " /\ D(s, p + 1) /\ V(s, p + 1) >= 1 /\ W(s, p + 2)
                  THEN 2 ELSE 0
  IN  IF len = 0 THEN NoDate
      ELSE Hour(s, p + len + Run(s, p + len), y, mo, Val(s, p, len))

\* %m: (1[0-2]|0[1-9]|[1-9]), then "-"
Month(s, p, y) ==
  LET len == IF D(s, p) /\ D(s, p + 1) /\ V2(s, p) \in 1..12 /\ At(s, p + 2) = "-" THEN 2
             ELSE IF D(s, p) /\ V(s, p) >= 1 /\ At(s, p + 1) = "-" THEN 1 ELSE 0
  IN  IF len = 0 THEN NoDate
      ELSE Day(s, p + len + 1, y, Val(s, p, len))

\* datetime.strptime(s, "%Y-%m-%d %H:%M:%S %z"): the datetime, or ValueError.
\* %Y: (\d\d\d\d), then "-"
strptime(s) ==
  IF D(s, 1) /\ D(s, 2) /\ D(s, 3) /\ D(s, 4) /\ At(s, 5) = "-"
  THEN Month(s, 6, 100 * V2(s, 1) + V2(s, 3))
  ELSE NoDate

\* DateIso of the datetime moved to UTC first (astimezone(timezone.utc))
DateIsoUtc(dt) ==
  LET secs == 3600 * dt.hour + 60 * dt.minute + dt.second - dt.utcoffset
      y == dt.year
      m == dt.month
      d == dt.day
      ymd == IF secs < 0
             THEN IF d > 1 THEN <<y, m, d - 1>>
                  ELSE IF m > 1 THEN <<y, m - 1, DaysInMonth(y, m - 1)>>
                  ELSE <<y - 1, 12, 31>>
             ELSE IF secs >= 86400
             THEN IF d < DaysInMonth(y, m) THEN <<y, m, d + 1>>
                  ELSE IF m < 12 THEN <<y, m + 1, 1>>
                  ELSE <<y + 1, 1, 1>>
             ELSE <<y, m, d>>
  IN  ZeroPad(ymd[1], 4) \o <<"-">> \o ZeroPad(ymd[2], 2) \o <<"-">> \o ZeroPad(ymd[3], 2)

\* str(commit_date.date()): date.isoformat(), "%04d-%02d-%02d"
DateIso(dt) ==
  ZeroPad(dt.year, 4) \o <<"-">> \o ZeroPad(dt.month, 2) \o <<"-">> \o ZeroPad(dt.day, 2)

(***************************************************************************)
(* The input of keep_a_changelog.py: what `git log` prints                 *)
(***************************************************************************)
\* One line of the log: a commit, printed through LOG_FORMAT, or raw text.
Commit(h, s, d, r) ==
  [kind |-> "commit", hash |-> h, subject |-> s, date |-> d, refs |-> r]

Raw(t) == [kind |-> "raw", text |-> t]

Tag(name) == [tag |-> TRUE, name |-> name]

Ref(name) == [tag |-> FALSE, name |-> name]

\* %d: the ref names of the commit, " (a, tag: b)", or nothing
Decoration(refs) ==
  IF refs = <<>> THEN <<>>
  ELSE <<" ","(">> \o Join([k \in 1..Len(refs) |->
                        IF refs[k].tag THEN <<"t","a","g",":"," ">> \o refs[k].name
                        ELSE refs[k].name], <<","," ">>) \o <<")">>

\* --pretty=format:%H|%s|%ad|%d
LogLine(e) ==
  IF e.kind = "raw" THEN e.text
  ELSE e.hash \o <<"|">> \o e.subject \o <<"|">> \o e.date \o <<"|">> \o Decoration(e.refs)

\* result.stdout: the lines, "\n" between them
Stdout(entries) == Join([k \in 1..Len(entries) |-> LogLine(entries[k])], <<"\n">>)

(***************************************************************************)
(* keep_a_changelog.py: parse_git_logs                                     *)
(***************************************************************************)
CommitInfo(h, m, d, t) ==
  [commit_hash |-> h, message |-> m, date_str |-> d, tags |-> t]

\* re.sub(r"^\s*\(|\)\s*$", "", tag_str)
StripParens(s) ==
  LET I    == {i \in 1..Len(s) : s[i] \notin Whitespace}
      from == IF I # {} /\ s[SetMin(I)] = "(" THEN SetMin(I) + 1 ELSE 1
      J    == {i \in from..Len(s) : s[i] \notin Whitespace}
      to   == IF J # {} /\ s[SetMax(J)] = ")" THEN SetMax(J) - 1 ELSE Len(s)
  IN  SubSeq(s, from, to)

\* tag.strip().replace("tag: ", "")
CleanRef(entry) == Remove(Strip(entry), <<"t","a","g",":"," ">>)

\* lines 125-136: the tags of the fourth field
ParseTags(parts) ==
  IF Len(parts) > 3 /\ parts[4] # <<>> /\ Strip(parts[4]) # <<>>
  THEN LET entries == Split(StripParens(Strip(parts[4])), ",")
           kept    == SelectSeq(entries, LAMBDA e : Strip(e) # <<>>)
           tags    == [k \in 1..Len(kept) |-> CleanRef(kept[k])]
       IN  SelectSeq(tags, is_semver_tag)
  ELSE <<>>

\* The body of the loop for one non-empty line: the record, or the exception
ParseLine(line) ==
  LET parts == Split(line, "|")
  IN  IF Len(parts) < 3 THEN [raises |-> "IndexError"]
      ELSE LET commit_date == strptime(parts[3])
           IN  IF ~commit_date.ok THEN [raises |-> "ValueError"]
               ELSE [raises |-> "none",
                     commit |-> CommitInfo(parts[1], parts[2],
                                           DateIso(commit_date), ParseTags(parts))]

(***************************************************************************)
(* keep_a_changelog.py: write_changelog                                    *)
(***************************************************************************)
Title == <<"#"," ","C","H","A","N","G","E","L","O","G","\n","\n">>

Unreleased == <<"#","#"," ","U","n","r","e","l","e","a","s","e","d","\n","\n">>

Heading(commit) ==
  <<"\n","#","#"," ">> \o Join(commit.tags, <<",">>) \o <<" ","-"," ">> \o commit.date_str \o <<"\n","\n">>

Bullet(commit) == <<"-"," ">> \o commit.message \o <<"\n">>

\* what the with block writes before the loop
Preamble(commits) ==
  IF Len(commits[1].tags) = 0 THEN Title \o Unreleased ELSE Title

\* Entry with the heading written after the commit's own bullet
EntryBulletFirst(commit) ==
  IF Len(commit.tags) > 0 THEN Bullet(commit) \o Heading(commit) ELSE Bullet(commit)

\* Entry with the bullet written in an else branch: none for a tagged commit
EntryHeadingOnly(commit) ==
  IF Len(commit.tags) > 0 THEN Heading(commit) ELSE Bullet(commit)

\* what one turn of the loop writes
Entry(commit) ==
  IF Len(commit.tags) > 0 THEN Heading(commit) \o Bullet(commit) ELSE Bullet(commit)

(***************************************************************************)
(* State                                                                   *)
(***************************************************************************)
VARIABLES
  log,        \* keep_a_changelog: the lines git log prints (the run's input)
  pc,         \* keep_a_changelog: where main() is
  lines,      \* the list get_git_logs returned
  idx,        \* parse_git_logs: the line the loop is at
  commits,    \* the list of CommitInfo built so far
  widx,       \* write_changelog: the commit the loop is at
  error,      \* the exception that ended the run, or "none"
  exitCode,   \* the exit status of the process, -1 while it runs
  printed,    \* what was printed to standard output
  prior,      \* CHANGELOG.md as it was before the run
  changelog,  \* CHANGELOG.md now
  handle,     \* the file object of write_changelog: "none", "open", "closed"
  csvFile,    \* csv_to_markdown: the input file, [exists, readable, rows]
  answer,     \* csv_to_markdown: what the user types at the prompt
  mdPrior,    \* csv_to_markdown: the Markdown file before the run
  mdFile,     \* csv_to_markdown: the Markdown file now
  mdHandle,   \* csv_to_markdown: the file object of main
  cpc,        \* csv_to_markdown: where main() is
  cexit       \* csv_to_markdown: the exit status, -1 while it runs

changelogVars ==
  <<log, pc, lines, idx, commits, widx, error, exitCode, printed, prior,
    changelog, handle>>

csvVars == <<csvFile, answer, mdPrior, mdFile, mdHandle, cpc, cexit>>

vars == <<changelogVars, csvVars>>

NoFile == [exists |-> FALSE, content |-> <<>>]

File(content) == [exists |-> TRUE, content |-> content]

(***************************************************************************)
(* Bounds and inputs                                                       *)
(***************************************************************************)
\* the longest log of the rendering runs
MaxLines == 3

\* the longest log of the parsing runs
MaxParseLines == 2

GoodDate == <<"2","0","2","4","-","0","2","-","0","3"," ","1","0",":","0","0",":","0","0"," ","+","0","0","0","0">>

\* The log lines of the rendering runs
RenderLines ==
  { Commit(<<"a","1">>, <<"f","i","x"," ","b","u","g">>, GoodDate, <<>>),
    Commit(<<"b","2">>, <<"r","e","l","e","a","s","e">>, <<"2","0","2","4","-","0","2","-","0","1"," ","0","9",":","0","0",":","0","0"," ","+","0","1","0","0">>, <<Tag(<<"v","1",".","1",".","0">>)>>),
    Commit(<<"c","3">>, <<"a","d","d"," ","f","e","a","t","u","r","e">>, <<"2","0","2","4","-","0","1","-","1","5"," ","0","8",":","3","0",":","0","0"," ","-","0","5","0","0">>,
           <<Ref(<<"H","E","A","D"," ","-",">"," ","m","a","i","n">>), Tag(<<"v","1",".","0",".","0">>), Tag(<<"1",".","0",".","0">>)>>),
    Commit(<<"d","4">>, <<"o","o","p","s">>, <<"n","o","t","-","a","-","d","a","t","e">>, <<>>),
    Commit(<<"e","5">>, <<"d","o","c","s">>, <<"2","0","2","4","-","1","-","5"," ","1",":","0","2",":","0","3"," ","+","0","0","0","0">>, <<Ref(<<"o","r","i","g","i","n","/","m","a","i","n">>)>>),
    Raw(<<"f","6","|","w","i","p">>),
    Raw(<<>>) }

\* The log lines of the parsing runs: dates, ref lists and subjects
ParseDates ==
  { <<"2","0","2","4","-","0","1","-","1","5"," ","2","3",":","3","0",":","0","0"," ","+","0","0","0","0">>,
    <<"2","0","2","4","-","0","1","-","1","6"," ","0","0",":","3","0",":","0","0"," ","+","0","1","0","0">>,
    <<"2","0","2","4","-","0","2","-","2","9"," ","1","2",":","0","0",":","0","0"," ","-","0","8","0","0">>,
    <<"2","0","2","4","-","0","3","-","0","1"," ","0","1",":","0","0",":","0","0"," ","+","0","1",":","0","0">>,
    <<"2","0","2","4","-","3","-","1"," ","0",":","0",":","0"," ","Z">>,
    <<"2","0","2","3","-","0","2","-","2","9"," ","1","2",":","0","0",":","0","0"," ","+","0","0","0","0">>,
    <<"2","0","2","4","-","0","1","-","1","6"," ","0","0",":","3","0",":","0","0">> }

ParseRefs ==
  { <<Ref(<<"H","E","A","D"," ","-",">"," ","m","a","i","n">>), Tag(<<"v","1",".","2",".","3">>), Tag(<<"1",".","2",".","3">>)>>,
    <<Tag(<<"1",".","2",".","3","-","r","c",".","1">>), Tag(<<"1",".","2">>), Ref(<<"o","r","i","g","i","n","/","m","a","i","n">>)>>,
    <<Tag(<<"1",".","2",".","3","+","b","u","i","l","d",".","5">>), Tag(<<"v","1",".","2",".","3",".","4">>)>>,
    <<Tag(<<"r","e","l","e","a","s","e","-","1",".","2",".","3">>), Tag(<<"1",".","0","2",".","3">>)>>,
    <<Tag(<<"1",".","0",".","0","-","0","1">>), Tag(<<"1",".","0",".","0","-","x","-","1","+","0","0","1">>)>>,
    <<Ref(<<"m","a","i","n">>), Ref(<<"o","r","i","g","i","n","/","H","E","A","D">>)>>,
    <<Ref(<<"v","2",".","0",".","0">>)>> }

ParseSubjects == { <<"f","e","a","t",":"," ","a","|","b">> }

ParseLines ==
  { Commit(<<"a","1">>, <<"f","i","x">>, d, <<>>) : d \in ParseDates } \cup
  { Commit(<<"b","2">>, <<"t","a","g">>, GoodDate, r) : r \in ParseRefs } \cup
  { Commit(<<"c","3">>, s, GoodDate, <<>>) : s \in ParseSubjects } \cup
  { Raw(<<"f","6">>), Raw(<<>>) }

SeqsUpTo(S, n) == UNION { [1..k -> S] : k \in 0..n }

PriorFiles == { NoFile, File(<<"o","l","d","\n">>) }

\* csv_to_markdown: the rows csv.reader yields for the input file
Tables ==
  { <<>>,
    << <<<<"a">>, <<" ","b"," ">>>> >>,
    << <<<<"k">>, <<"v">>>>, <<<<"x"," ">>, <<"1">>>> >> }

Answers ==
  { <<"y">>, <<"Y">>, <<" ","y","e","s"," ">>, <<"Y","E","S">>, <<"n">>, <<>>, <<"y","e">>, <<"y","e","s"," ","p","l","e","a","s","e">>, <<"n","o">> }

\* what input() gives: a line, or EOFError at the end of standard input
Typed(text) == [eof |-> FALSE, text |-> text]

EndOfInput == [eof |-> TRUE, text |-> <<>>]

(***************************************************************************)
(* keep_a_changelog.py: main                                               *)
(***************************************************************************)
InitChangelog(pool, n) ==
  /\ log \in SeqsUpTo(pool, n)
  /\ prior \in PriorFiles
  /\ changelog = prior
  /\ pc = "get_git_logs"
  /\ lines = <<>>
  /\ idx = 0
  /\ commits = <<>>
  /\ widx = 0
  /\ error = "none"
  /\ exitCode = -1
  /\ printed = <<>>
  /\ handle = "none"

IdleChangelog ==
  /\ log = <<>>
  /\ prior = NoFile
  /\ changelog = NoFile
  /\ pc = "idle"
  /\ lines = <<>>
  /\ idx = 0
  /\ commits = <<>>
  /\ widx = 0
  /\ error = "none"
  /\ exitCode = -1
  /\ printed = <<>>
  /\ handle = "none"

\* An exception nothing catches: the traceback, exit status 1
Abort(exc) ==
  /\ error' = exc
  /\ exitCode' = 1
  /\ pc' = "exit"

\* get_git_logs, lines 72-85: git fails, or its output is stripped and split
get_git_logs ==
  /\ pc = "get_git_logs"
  /\ \/ /\ Abort("CalledProcessError")
        /\ printed' = Append(printed, "Error executing git command")
        /\ UNCHANGED <<lines, idx>>
     \/ /\ lines' = Split(Strip(Stdout(log)), "\n")
        /\ idx' = 1
        /\ pc' = "parse_git_logs"
        /\ UNCHANGED <<error, exitCode, printed>>
  /\ UNCHANGED <<log, commits, widx, prior, changelog, handle>>
  /\ UNCHANGED csvVars

\* parse_line with the exception swallowed: a line that fails is skipped
parse_line_skip ==
  /\ pc = "parse_git_logs"
  /\ idx <= Len(lines)
  /\ idx' = idx + 1
  /\ commits' = IF lines[idx] # <<>> /\ ParseLine(lines[idx]).raises = "none"
                THEN Append(commits, ParseLine(lines[idx]).commit)
                ELSE commits
  /\ UNCHANGED <<log, pc, lines, widx, error, exitCode, printed, prior, changelog, handle>>
  /\ UNCHANGED csvVars

\* parse_git_logs, lines 105-144: one turn of the loop
parse_line ==
  /\ pc = "parse_git_logs"
  /\ idx <= Len(lines)
  /\ IF lines[idx] = <<>>
     THEN /\ idx' = idx + 1
          /\ UNCHANGED <<commits, error, exitCode, pc>>
     ELSE LET r == ParseLine(lines[idx])
          IN  IF r.raises # "none"
              THEN /\ Abort(r.raises)
                   /\ UNCHANGED <<commits, idx>>
              ELSE /\ commits' = Append(commits, r.commit)
                   /\ idx' = idx + 1
                   /\ UNCHANGED <<error, exitCode, pc>>
  /\ UNCHANGED <<log, lines, widx, printed, prior, changelog, handle>>
  /\ UNCHANGED csvVars

\* parse_git_logs, line 146: the loop is over
parse_return ==
  /\ pc = "parse_git_logs"
  /\ idx > Len(lines)
  /\ pc' = "write_changelog"
  /\ UNCHANGED <<log, lines, idx, commits, widx, error, exitCode, printed,
                 prior, changelog, handle>>
  /\ UNCHANGED csvVars

\* write_nothing with the file opened before the list is looked at
write_nothing_truncating ==
  /\ pc = "write_changelog"
  /\ commits = <<>>
  /\ printed' = Append(printed, "No commits found or error occurred.")
  /\ changelog' = File(<<>>)
  /\ handle' = "closed"
  /\ exitCode' = 0
  /\ pc' = "exit"
  /\ UNCHANGED <<log, lines, idx, commits, widx, error, prior>>
  /\ UNCHANGED csvVars

\* write_changelog, lines 172-174: nothing to write
write_nothing ==
  /\ pc = "write_changelog"
  /\ commits = <<>>
  /\ printed' = Append(printed, "No commits found or error occurred.")
  /\ exitCode' = 0
  /\ pc' = "exit"
  /\ UNCHANGED <<log, lines, idx, commits, widx, error, prior, changelog, handle>>
  /\ UNCHANGED csvVars

\* write_changelog, lines 176-180: get_git_root, then open(.., "w") truncates
\* the file and the title (and "Unreleased") are written
open_changelog ==
  /\ pc = "write_changelog"
  /\ commits # <<>>
  /\ \/ /\ Abort("CalledProcessError")
        /\ UNCHANGED <<changelog, handle, widx>>
     \/ /\ changelog' = File(Preamble(commits))
        /\ handle' = "open"
        /\ widx' = 1
        /\ pc' = "write_loop"
        /\ UNCHANGED <<error, exitCode>>
  /\ UNCHANGED <<log, lines, idx, commits, printed, prior>>
  /\ UNCHANGED csvVars

\* write_changelog, lines 181-185: one turn of the loop
write_commit ==
  /\ pc = "write_loop"
  /\ widx <= Len(commits)
  /\ changelog' = File(changelog.content \o Entry(commits[widx]))
  /\ widx' = widx + 1
  /\ UNCHANGED <<log, pc, lines, idx, commits, error, exitCode, printed, prior, handle>>
  /\ UNCHANGED csvVars

\* the with block ends: the file is closed, main returns
close_changelog ==
  /\ pc = "write_loop"
  /\ widx > Len(commits)
  /\ handle' = "closed"
  /\ exitCode' = 0
  /\ pc' = "exit"
  /\ UNCHANGED <<log, lines, idx, commits, widx, error, printed, prior, changelog>>
  /\ UNCHANGED csvVars

main ==
  \/ get_git_logs
  \/ parse_line
  \/ parse_return
  \/ write_nothing
  \/ open_changelog
  \/ write_commit
  \/ close_changelog

(***************************************************************************)
(* csv_to_markdown.py                                                      *)
(***************************************************************************)
\* csv_to_markdown_table, lines 56-65
Row(cells) == <<"|"," ">> \o Join(cells, <<" ","|"," ">>) \o <<" ","|">>

csv_to_markdown_table(rows) ==
  LET table ==
        [k \in 1..(IF rows = <<>> THEN 0 ELSE Len(rows) + 1) |->
           IF k = 1 THEN Row([c \in 1..Len(rows[1]) |-> Strip(rows[1][c])])
           ELSE IF k = 2 THEN Row([c \in 1..Len(rows[1]) |-> <<"-">>])
           ELSE Row([c \in 1..Len(rows[k - 1]) |-> Strip(rows[k - 1][c])])]
  IN  Join(table, <<"\n">>)

\* Confirms with a prefix test in place of the membership test
ConfirmsPrefix(text) == StartsWith(Strip(Lower(text)), <<"y">>)

\* line 80: user_input in ["yes", "y"], after .lower().strip()
Confirms(text) == Strip(Lower(text)) \in { <<"y","e","s">>, <<"y">> }

InitCsv ==
  /\ csvFile \in [exists : BOOLEAN, readable : BOOLEAN, rows : Tables]
  /\ answer \in { Typed(t) : t \in Answers } \cup { EndOfInput }
  /\ mdPrior \in PriorFiles
  /\ mdFile = mdPrior
  /\ mdHandle = "none"
  /\ cpc = "check_csv"
  /\ cexit = -1

IdleCsv ==
  /\ csvFile = [exists |-> FALSE, readable |-> FALSE, rows |-> <<>>]
  /\ answer = EndOfInput
  /\ mdPrior = NoFile
  /\ mdFile = NoFile
  /\ mdHandle = "none"
  /\ cpc = "idle"
  /\ cexit = -1

\* lines 71-73: the input file must exist
check_csv ==
  /\ cpc = "check_csv"
  /\ IF csvFile.exists
     THEN cpc' = "check_markdown" /\ cexit' = cexit
     ELSE cpc' = "exit" /\ cexit' = 1
  /\ UNCHANGED <<csvFile, answer, mdPrior, mdFile, mdHandle>>
  /\ UNCHANGED changelogVars

\* lines 74-86: an existing Markdown file is overwritten only on "y" or "yes"
check_markdown ==
  /\ cpc = "check_markdown"
  /\ IF mdFile.exists /\ (answer.eof \/ ~Confirms(answer.text))
     THEN cpc' = "exit" /\ cexit' = 1
     ELSE cpc' = "open_markdown" /\ cexit' = cexit
  /\ UNCHANGED <<csvFile, answer, mdPrior, mdFile, mdHandle>>
  /\ UNCHANGED changelogVars

\* line 87: open("w") creates or truncates the Markdown file
open_markdown ==
  /\ cpc = "open_markdown"
  /\ mdFile' = File(<<>>)
  /\ mdHandle' = "open"
  /\ cpc' = "write_markdown"
  /\ UNCHANGED <<csvFile, answer, mdPrior, cexit>>
  /\ UNCHANGED changelogVars

\* line 88: the table is built from the input file and written; a file that
\* cannot be read raises inside the with block, which closes the file
write_markdown ==
  /\ cpc = "write_markdown"
  /\ IF csvFile.readable
     THEN mdFile' = File(csv_to_markdown_table(csvFile.rows)) /\ cexit' = 0
     ELSE mdFile' = mdFile /\ cexit' = 1
  /\ mdHandle' = "closed"
  /\ cpc' = "exit"
  /\ UNCHANGED <<csvFile, answer, mdPrior>>
  /\ UNCHANGED changelogVars

csv_main ==
  \/ check_csv
  \/ check_markdown
  \/ open_markdown
  \/ write_markdown

(***************************************************************************)
(* Specifications                                                          *)
(***************************************************************************)
\* keep_a_changelog.py on the rendering logs
Init == InitChangelog(RenderLines, MaxLines) /\ IdleCsv

Next == main

Spec == Init /\ [][Next]_vars

\* keep_a_changelog.py on the parsing logs
InitParse == InitChangelog(ParseLines, MaxParseLines) /\ IdleCsv

SpecParse == InitParse /\ [][Next]_vars

\* csv_to_markdown.py
InitCsvRun == IdleChangelog /\ InitCsv

NextCsv == csv_main

SpecCsv == InitCsvRun /\ [][NextCsv]_vars

(***************************************************************************)
(* Properties of the rendering (write_changelog)                           *)
(***************************************************************************)
\* the file was written and closed
Written == handle = "closed"

DocLines == Split(changelog.content, "\n")

IsHeading(l) == StartsWith(l, <<"#","#"," ">>)

IsBullet(l) == StartsWith(l, <<"-"," ">>)

\* where the k-th bullet line of the document is
BulletAt(k) ==
  CHOOSE p \in 1..Len(DocLines) :
    /\ IsBullet(DocLines[p])
    /\ Cardinality({q \in 1..p : IsBullet(DocLines[q])}) = k

\* the heading line a line of the document stands under
HeadingAbove(p) ==
  LET H == {q \in 1..(p - 1) : IsHeading(DocLines[q])}
  IN  IF H = {} THEN <<>> ELSE DocLines[SetMax(H)]

\* the nearest record at or before the k-th that carries tags, 0 if none
Owner(k) ==
  LET T == {j \in 1..k : commits[j].tags # <<>>}
  IN  IF T = {} THEN 0 ELSE SetMax(T)

SectionOf(k) ==
  IF Owner(k) = 0 THEN <<"#","#"," ","U","n","r","e","l","e","a","s","e","d">>
  ELSE <<"#","#"," ">> \o Join(commits[Owner(k)].tags, <<",">>) \o <<" ","-"," ">>
         \o commits[Owner(k)].date_str

Bullets == SelectSeq(DocLines, IsBullet)

\* C1: in the written document each record's bullet stands under the heading
\* of the nearest record at or before it that carries tags (its comma-joined
\* tags, " - ", its date), or under "## Unreleased" when there is none; the
\* "## Unreleased" heading is the first line after the title and its blank
\* line, and it is there if and only if the first record has no tags.
C1_Grouping ==
  Written =>
    /\ Len(Bullets) = Len(commits)
    /\ \A k \in 1..Len(commits) : HeadingAbove(BulletAt(k)) = SectionOf(k)
    /\ (\E p \in 1..Len(DocLines) : DocLines[p] = <<"#","#"," ","U","n","r","e","l","e","a","s","e","d">>)
         <=> commits[1].tags = <<>>
    /\ commits[1].tags = <<>> => DocLines[3] = <<"#","#"," ","U","n","r","e","l","e","a","s","e","d">>

\* C1 witness: an untagged record, then a tagged one, then an untagged one
C1_Witness ==
  /\ Written
  /\ Len(commits) = 3
  /\ commits[1].tags = <<>>
  /\ commits[2].tags # <<>>
  /\ commits[3].tags = <<>>

\* C2: the bullet lines of the written document are, in order, "- " followed
\* by the message of each record, one per record, tagged or not.
C2_OneBulletPerRecord ==
  Written => Bullets = [k \in 1..Len(commits) |-> <<"-"," ">> \o commits[k].message]

\* C2 witness: a document written from tagged and untagged records
C2_Witness ==
  /\ Written
  /\ Len(commits) >= 2
  /\ \E j, k \in 1..Len(commits) : commits[j].tags # <<>> /\ commits[k].tags = <<>>

LineAt(p) == IF p >= 1 /\ p <= Len(DocLines) THEN DocLines[p] ELSE <<"(","n","o","n","e",")">>

\* C3: in the written document every section heading has exactly one blank
\* line before it and exactly one blank line after it.
C3_HeadingSpacing ==
  Written =>
    \A p \in 1..Len(DocLines) :
      IsHeading(DocLines[p]) =>
        /\ LineAt(p - 1) = <<>> /\ LineAt(p - 2) # <<>>
        /\ LineAt(p + 1) = <<>> /\ LineAt(p + 2) # <<>>

(***************************************************************************)
(* Properties of the run (main)                                            *)
(***************************************************************************)
NonEmptyLines == SelectSeq(lines, LAMBDA l : l # <<>>)

\* the third "|"-separated field of a line, if it has one
HasDateField(l) == Len(Split(l, "|")) >= 3

DateField(l) == Split(l, "|")[3]

\* YYYY-MM-DD HH:MM:SS +-HHMM, character for character
FixedWidthDate(d) ==
  /\ Len(d) = 25
  /\ \A i \in {1, 2, 3, 4, 6, 7, 9, 10, 12, 13, 15, 16, 18, 19, 22, 23, 24, 25} :
       d[i] \in Digits
  /\ d[5] = "-" /\ d[8] = "-" /\ d[11] = " " /\ d[14] = ":" /\ d[17] = ":"
  /\ d[20] = " " /\ d[21] \in {"+", "-"}

Untouched == handle = "none" /\ changelog = prior

\* C4 as stated: when git fails, or any non-empty line has a date field that
\* is not of the form YYYY-MM-DD HH:MM:SS +-HHMM, the run ends with a non-zero
\* status and CHANGELOG.md is never opened.
C4_FixedWidthOrAbort ==
  (\/ error = "CalledProcessError"
   \/ \E i \in 1..Len(lines) :
        lines[i] # <<>> /\ HasDateField(lines[i])
          /\ ~FixedWidthDate(DateField(lines[i])))
    => /\ Untouched
       /\ pc = "exit" => exitCode # 0

Rejected(l) == ~HasDateField(l) \/ ~strptime(DateField(l)).ok

\* C4 amended: a run that ends with an exception (git fails, or a non-empty
\* line has no date field or one that strptime rejects) exits with status 1
\* and leaves CHANGELOG.md unopened and as it was; the file is opened only
\* after the loop went over every line and none was rejected; and no run with
\* a rejected line ends without an exception.
C4_AbortLeavesFile ==
  /\ error # "none" => Untouched /\ exitCode = 1 /\ pc = "exit"
  /\ handle # "none" =>
       /\ error = "none"
       /\ idx > Len(lines)
       /\ \A i \in 1..Len(lines) : lines[i] # <<>> => ~Rejected(lines[i])
  /\ (pc = "exit" /\ \E i \in 1..Len(lines) : lines[i] # <<>> /\ Rejected(lines[i]))
       => error # "none"

\* C4 witness: the second of three lines has a bad date, the first was parsed,
\* and there was a CHANGELOG.md before the run
C4_Witness ==
  /\ error = "ValueError"
  /\ Len(lines) = 3
  /\ idx = 2
  /\ Len(commits) = 1
  /\ prior.exists

\* the log output is empty or has only empty lines
OnlyEmptyLines == \A k \in 1..Len(log) : LogLine(log[k]) = <<>>

\* C5: when the log output is empty or has only empty lines and git did not
\* fail, the parser yields no record and raises nothing; and a run that ends
\* with no record has printed the diagnostic, exits with status 0, and has
\* not opened, created or changed CHANGELOG.md.
C5_EmptyIsNoOp ==
  /\ (OnlyEmptyLines /\ error # "CalledProcessError") =>
       /\ commits = <<>>
       /\ error = "none"
       /\ pc # "write_loop"
  /\ (pc = "exit" /\ error = "none" /\ commits = <<>>) =>
       /\ Untouched
       /\ exitCode = 0
       /\ printed = <<"No commits found or error occurred.">>

\* C5 witness: a log of two empty lines, a CHANGELOG.md before the run, the end
C5_Witness ==
  /\ Len(log) = 2
  /\ OnlyEmptyLines
  /\ prior.exists
  /\ pc = "exit"
  /\ exitCode = 0

(***************************************************************************)
(* Properties of the parser (parse_git_logs)                               *)
(***************************************************************************)
\* The k-th record comes from the k-th non-empty line, and that line from
\* the k-th log entry that is not an empty line.
Source(k) == SelectSeq(log, LAMBDA e : LogLine(e) # <<>>)[k]

\* days from 0000-03-01 to the date, proleptic Gregorian calendar
DayNumber(y, m, d) ==
  LET yy == IF m < 3 THEN y - 1 ELSE y
      mm == IF m < 3 THEN m + 9 ELSE m - 3
  IN  365 * yy + (yy \div 4) - (yy \div 100) + (yy \div 400)
        + ((153 * mm + 2) \div 5) + d

\* the instant a date field denotes: the day and the second of the day, UTC
Instant(field) ==
  LET t    == strptime(field)
      secs == 3600 * t.hour + 60 * t.minute + t.second - t.utcoffset
  IN  <<DayNumber(t.year, t.month, t.day) + (secs \div 86400), secs % 86400>>

\* C6 as stated: two lines whose date fields denote the same instant yield
\* records with the same date_str, whatever their UTC offsets.
C6_SameInstantSameDate ==
  \A j, k \in 1..Len(commits) :
    Instant(DateField(NonEmptyLines[j])) = Instant(DateField(NonEmptyLines[k]))
      => commits[j].date_str = commits[k].date_str

\* C6 amended: date_str is the calendar date as the date field writes it, in
\* the field's own UTC offset: for a field of the form
\* YYYY-MM-DD HH:MM:SS +-HHMM it is the field's first ten characters.
C6_DateAsWritten ==
  \A k \in 1..Len(commits) :
    FixedWidthDate(DateField(NonEmptyLines[k]))
      => commits[k].date_str = SubSeq(DateField(NonEmptyLines[k]), 1, 10)

\* C6 witness: two records parsed from fields that denote the same instant
\* with different offsets
C6_Witness ==
  \E j, k \in 1..Len(commits) :
    /\ FixedWidthDate(DateField(NonEmptyLines[j]))
    /\ FixedWidthDate(DateField(NonEmptyLines[k]))
    /\ Instant(DateField(NonEmptyLines[j])) = Instant(DateField(NonEmptyLines[k]))
    /\ strptime(DateField(NonEmptyLines[j])).utcoffset
         # strptime(DateField(NonEmptyLines[k])).utcoffset

\* the ref names the semantic-version grammar accepts, among those of the logs
SemverNames ==
  { <<"v","1",".","2",".","3">>, <<"1",".","2",".","3">>, <<"1",".","2",".","3","-","r","c",".","1">>, <<"1",".","2",".","3","+","b","u","i","l","d",".","5">>, <<"1",".","0",".","0","-","x","-","1","+","0","0","1">>,
    <<"v","2",".","0",".","0">>, <<"v","1",".","1",".","0">>, <<"v","1",".","0",".","0">>, <<"1",".","0",".","0">> }

RefNames(e) == [i \in 1..Len(e.refs) |-> e.refs[i].name]

\* C7: the tags of a record are the entries of the line's ref list, trimmed
\* and without the "tag: " marker, that are semantic versions, in the order of
\* the list: v1.2.3, 1.2.3, 1.2.3-rc.1 and 1.2.3+build.5 are kept; 1.2,
\* v1.2.3.4, release-1.2.3 and 1.02.3 are not.
C7_TagsAreSemver ==
  \A k \in 1..Len(commits) :
    commits[k].tags = SelectSeq(RefNames(Source(k)), LAMBDA n : n \in SemverNames)

\* C7 witness: a record parsed from a ref list with a kept and a dropped entry
C7_Witness ==
  \E k \in 1..Len(commits) :
    /\ commits[k].tags = << <<"1",".","2",".","3","-","r","c",".","1">> >>
    /\ Len(Source(k).refs) = 3

\* C8: a record parsed from a line whose ref list has no entry marked
\* "tag: " (no list, or branch names only) has no tags.
C8_UntaggedHasNoTags ==
  \A k \in 1..Len(commits) :
    (\A i \in 1..Len(Source(k).refs) : ~Source(k).refs[i].tag)
      => commits[k].tags = <<>>

\* C9: every line built as hash|subject|date|refs with a date strptime
\* accepts yields a record, whose commit_hash is the hash and whose message
\* is the subject, also when the subject holds a "|".
C9_HashAndMessageVerbatim ==
  /\ \A k \in 1..Len(commits) :
       /\ commits[k].commit_hash = Source(k).hash
       /\ commits[k].message = Source(k).subject
  /\ error \in {"ValueError", "IndexError"} =>
       ~( /\ Source(Len(commits) + 1).kind = "commit"
          /\ strptime(Source(Len(commits) + 1).date).ok )

(***************************************************************************)
(* Properties of csv_to_markdown.py                                        *)
(***************************************************************************)
\* the answers that are "y" or "yes" once lower-cased and trimmed
YesAnswers == { <<"y">>, <<"Y">>, <<" ","y","e","s"," ">>, <<"Y","E","S">> }

Agreed == ~answer.eof /\ answer.text \in YesAnswers

\* C10: a Markdown file that exists before the run is unopened and unchanged,
\* and the process exits with status 1, unless the input file exists and the
\* answer to the prompt is "y" or "yes"; the Markdown file is opened only
\* after both checks have passed.
C10_MarkdownStaysIntact ==
  /\ (mdPrior.exists /\ ~(csvFile.exists /\ Agreed)) =>
       /\ mdFile = mdPrior
       /\ mdHandle = "none"
       /\ cpc = "exit" => cexit = 1
  /\ mdHandle # "none" => csvFile.exists /\ (mdPrior.exists => Agreed)

\* C10 witness: the run has ended after an answer that is not "y" or "yes"
C10_Witness ==
  /\ cpc = "exit"
  /\ mdPrior.exists
  /\ csvFile.exists
  /\ answer = Typed(<<"y","e","s"," ","p","l","e","a","s","e">>)
  /\ mdFile = mdPrior
  /\ cexit = 1
=============================================================================
